---- MODULE Spec2Model ----
(***************************************************************************)
(* Model of the paginated-fetch engine of src/src/api.rs: the single-page  *)
(* fetcher ApiResult, the paginated stream ApiResults (Stream::poll_next)  *)
(* and the URL construction of Api::get_user_tweets, driven by a consumer  *)
(* that polls the stream and by a server that answers the requests; and of  *)
(* src/src/main.rs: the lookup of the user, and the loop that opens a       *)
(* stream of tweets, pulls it dry and sorts the tweets into sessions and    *)
(* periods, until enough tweets are counted.                                *)
(*                                                                         *)
(* Strings that are formatted, encoded or parsed are sequences of          *)
(* one-character strings, so that the form-urlencoding of append_pair and  *)
(* its decoding on the receiving side are computed, not assumed.           *)
(***************************************************************************)
EXTENDS Integers, Sequences, FiniteSets, TLC

\* ------------------------------------------------------------------ bounds
\* Longest chain of pages the server holds.
MaxPages == 3
\* Most items in one page.
MaxItems == 2
\* Most results (items, errors, ends) one behaviour pulls out of a stream:
\* every item of the longest chain, "no more items", and one more.
MaxOut == MaxPages * MaxItems + 2
\* Most polls of one fetch that find it still pending.
MaxPendingPolls == 2
\* Most responses that are not the plain 200 + page in one behaviour.
MaxFaults == 1
\* The tweets main wants to have counted: 1000 in the source, scaled down.
MIN_TWEETS_TO_ANALYZE == 2
\* Longest timeline the server holds: long enough for a period of two
\* sessions to be closed by a later tweet.
MaxTweets == MaxPages + 1

\* ------------------------------------------------------------- Option<T>
NoneStr == [some |-> FALSE, val |-> <<>>]
SomeStr(s) == [some |-> TRUE, val |-> s]

\* ------------------------------------------------ form-urlencoded strings
\* Bytes form_urlencoded::byte_serialize leaves as they are.
Unreserved ==
    { "a","b","c","d","e","f","g","h","i","j","k","l","m","n","o","p","q","r",
      "s","t","u","v","w","x","y","z","T","Z",
      "0","1","2","3","4","5","6","7","8","9","*","-",".","_" }

\* The two hex digits of the bytes of the model's alphabet that are escaped.
HexOf(c) ==
    CASE c = "&" -> <<"2","6">>
      [] c = "=" -> <<"3","D">>
      [] c = "%" -> <<"2","5">>
      [] c = "+" -> <<"2","B">>
      [] c = ":" -> <<"3","A">>
      [] c = "," -> <<"2","C">>
      [] OTHER   -> <<"3","F">>

Escaped == { "&", "=", "%", "+", ":", "," }

UnHex(h) ==
    IF \E c \in Escaped : HexOf(c) = h
    THEN CHOOSE c \in Escaped : HexOf(c) = h
    ELSE "?"

HexDigits == { "0","1","2","3","4","5","6","7","8","9","A","B","C","D","E","F" }

RECURSIVE byte_serialize(_)
byte_serialize(s) ==
    IF s = <<>> THEN <<>>
    ELSE LET c == Head(s)
             e == IF c \in Unreserved THEN <<c>>
                  ELSE IF c = " " THEN <<"+">>
                  ELSE <<"%">> \o HexOf(c)
         IN e \o byte_serialize(Tail(s))

\* Serializer::append_pair on the query of a url: "&" unless the query is
\* still empty, then name "=" value, both byte-serialized.
append_pair(query, name, value) ==
    (IF query = <<>> THEN <<>> ELSE query \o <<"&">>)
        \o byte_serialize(name) \o <<"=">> \o byte_serialize(value)

\* The receiving side: form_urlencoded::parse.
RECURSIVE decode(_)
decode(s) ==
    IF s = <<>> THEN <<>>
    ELSE IF Head(s) = "+" THEN <<" ">> \o decode(Tail(s))
    ELSE IF /\ Head(s) = "%"
            /\ Len(s) >= 3
            /\ s[2] \in HexDigits
            /\ s[3] \in HexDigits
         THEN <<UnHex(<<s[2], s[3]>>)>> \o decode(SubSeq(s, 4, Len(s)))
    ELSE <<Head(s)>> \o decode(Tail(s))

\* Index of the first sep in s, or 0.
RECURSIVE IndexOf(_, _, _)
IndexOf(s, sep, from) ==
    IF from > Len(s) THEN 0
    ELSE IF s[from] = sep THEN from
    ELSE IndexOf(s, sep, from + 1)

RECURSIVE Split(_, _)
Split(s, sep) ==
    LET i == IndexOf(s, sep, 1)
    IN IF i = 0 THEN <<s>>
       ELSE <<SubSeq(s, 1, i - 1)>> \o Split(SubSeq(s, i + 1, Len(s)), sep)

parse_pair(seg) ==
    LET i == IndexOf(seg, "=", 1)
    IN IF i = 0 THEN <<decode(seg), <<>>>>
       ELSE <<decode(SubSeq(seg, 1, i - 1)), decode(SubSeq(seg, i + 1, Len(seg)))>>

\* Url::query_pairs: the (name, value) pairs of a query, empty segments skipped.
query_pairs(query) ==
    LET segs == SelectSeq(Split(query, "&"), LAMBDA g : g # <<>>)
    IN [k \in 1..Len(segs) |-> parse_pair(segs[k])]

\* ------------------------------------------------------ names on the wire
PAGINATION_TOKEN == <<"p","a","g","i","n","a","t","i","o","n","_","t","o","k","e","n">>
TWEET_FIELDS == <<"t","w","e","e","t",".","f","i","e","l","d","s">>
MAX_RESULTS == <<"m","a","x","_","r","e","s","u","l","t","s">>
END_TIME == <<"e","n","d","_","t","i","m","e">>
CREATED_AT == <<"c","r","e","a","t","e","d","_","a","t">>


\* ------------------------------------------------------------- formatting
DigitChar(d) == <<"0","1","2","3","4","5","6","7","8","9">>[d + 1]

\* usize::to_string: decimal digits, most significant first.
RECURSIVE usize_to_string(_)
usize_to_string(n) ==
    IF n < 10 THEN <<DigitChar(n)>>
    ELSE usize_to_string(n \div 10) \o <<DigitChar(n % 10)>>

TwoDigits(n) == <<DigitChar((n \div 10) % 10), DigitChar(n % 10)>>

\* DateTime<Utc>::to_rfc3339_opts(SecondsFormat::Secs, true) of an instant of
\* 1970-01-01, given as its second of the day.
to_rfc3339_opts(secs) ==
    <<"1","9","7","0","-","0","1","-","0","1","T">>
        \o TwoDigits(secs \div 3600) \o <<":">>
        \o TwoDigits((secs \div 60) % 60) \o <<":">>
        \o TwoDigits(secs % 60) \o <<"Z">>

\* TweetFields' Display (snake_case) of each field, joined by ",".
tweet_fields_joined(fields) ==
    IF "CreatedAt" \in fields THEN CREATED_AT ELSE <<>>

\* --------------------------------------------------------- GetTweetOpts
NoneInt == [some |-> FALSE, val |-> 0]
SomeInt(n) == [some |-> TRUE, val |-> n]

NoOpts ==
    [some |-> FALSE, tweet_fields |-> {}, max_results |-> NoneInt, end_time |-> NoneInt]

Opts(f, m, e) ==
    [some |-> TRUE, tweet_fields |-> f, max_results |-> m, end_time |-> e]

\* The options a caller passes: none, the builder's defaults, and main's.
GetTweetOptsSet ==
    { NoOpts,
      Opts({}, NoneInt, NoneInt),
      Opts({"CreatedAt"}, SomeInt(100), SomeInt(3675)) }

\* The url Api::get_user_tweets builds: the path and the query of the options.
tweets_url(opts) ==
    LET q0 == <<>>
        q1 == IF opts.some /\ opts.tweet_fields # {}
              THEN append_pair(q0, TWEET_FIELDS, tweet_fields_joined(opts.tweet_fields))
              ELSE q0
        q2 == IF opts.some /\ opts.max_results.some
              THEN append_pair(q1, MAX_RESULTS, usize_to_string(opts.max_results.val))
              ELSE q1
        q3 == IF opts.some /\ opts.end_time.some
              THEN append_pair(q2, END_TIME, to_rfc3339_opts(opts.end_time.val))
              ELSE q2
    IN [path |-> "/2/users/id/tweets", query |-> q3]

NoUrl == [path |-> "", query |-> <<>>]

\* ------------------------------------------------------- ApiData, ApiMeta
NoItems == [some |-> FALSE, val |-> <<>>]
SomeItems(s) == [some |-> TRUE, val |-> s]
NoMeta == [some |-> FALSE, val |-> [next_token |-> NoneStr]]
SomeMeta(t) == [some |-> TRUE, val |-> [next_token |-> t]]

ApiData(d, m) == [data |-> d, meta |-> m]
EmptyBody == ApiData(NoItems, NoMeta)

\* ApiError, and the value standing for "no error".
NoErr == [kind |-> "none", status |-> 0]
TransportErr == [kind |-> "transport", status |-> 0]
StatusErr(s) == [kind |-> "status", status |-> s]
DecodeErr == [kind |-> "decode", status |-> 0]

\* What a completed fetch is remembered by: whether it succeeded, the page of
\* the server's chain it delivered (0: none), and its error.
Fetched(i) == [ok |-> TRUE, page |-> i, err |-> NoErr]
Failed(e) == [ok |-> FALSE, page |-> 0, err |-> e]

\* Result<ApiData<T>>
Ok(d) == [ok |-> TRUE, data |-> d, err |-> NoErr]
Err(e) == [ok |-> FALSE, data |-> EmptyBody, err |-> e]

\* ------------------------------------------------------------ the server
\* The continuation token the server hands out with page i: two characters,
\* among them ones the query encoding has to escape.
TokenChars == <<"a", "&", "=", "%", "+", " ", "b", ":">>
TokenOf(i) ==
    << TokenChars[((i - 1) % Len(TokenChars)) + 1], TokenChars[(i % Len(TokenChars)) + 1] >>

\* The j-th item of page i.
ItemOf(i, j) == 10 * i + j

\* A page as the server holds it: its items and its continuation token.
Page(its, t) == [items |-> its, next_token |-> t]

\* A chain of n pages: page i holds lens[i] items, every page but the last
\* carries a next_token, the last carries none.
PageOf(i, n, len) ==
    Page([j \in 1..len |-> ItemOf(i, j)],
         IF i < n THEN SomeStr(TokenOf(i)) ELSE NoneStr)

\* The sizes a page comes in: empty, a single item, full.
PageLens == {0, 1, MaxItems}

Chains ==
    UNION { { [i \in 1..n |-> PageOf(i, n, lens[i])] : lens \in [1..n -> PageLens] } :
            n \in 1..MaxPages }

\* The bodies that stand for a page: an empty page may leave out "data", a
\* page without a token may leave out "meta".
bodies(page) ==
    { ApiData(d, m) :
        d \in {SomeItems(page.items)} \cup (IF page.items = <<>> THEN {NoItems} ELSE {}),
        m \in {SomeMeta(page.next_token)}
                \cup (IF page.next_token.some THEN {} ELSE {NoMeta}) }

\* The values of the pagination_token parameters of a request.
request_tokens(u) ==
    LET ps == query_pairs(u.query)
        hit == SelectSeq(ps, LAMBDA p : p[1] = PAGINATION_TOKEN)
    IN [k \in 1..Len(hit) |-> hit[k][2]]

\* The page a request asks for: the first page without a token, the page
\* after the one that handed out the token otherwise; 0 for an unknown token.
page_index(ch, u) ==
    LET ts == request_tokens(u)
    IN IF ts = <<>> THEN 1
       ELSE LET t == ts[Len(ts)]
                S == { i \in 1..(Len(ch) - 1) : TokenOf(i) = t }
            IN IF S = {} THEN 0 ELSE (CHOOSE i \in S : TRUE) + 1

\* A response: whether one came at all, its status, whether its body decodes
\* as ApiData, the decoded body, and the page of the chain the body is (0 when
\* it is none).
NoResponse ==
    [arrived |-> FALSE, transport_ok |-> FALSE, status |-> 0, decodes |-> FALSE,
     body |-> EmptyBody, page |-> 0]

Response(t, s, d, b, i) ==
    [arrived |-> TRUE, transport_ok |-> t, status |-> s, decodes |-> d,
     body |-> IF t /\ d THEN b ELSE EmptyBody, page |-> IF t /\ d THEN i ELSE 0]

\* What a healthy server may answer to a request.
server_responses(ch, u) ==
    LET i == page_index(ch, u)
    IN IF i = 0 THEN { Response(TRUE, 400, FALSE, EmptyBody, 0) }
       ELSE { Response(TRUE, 200, TRUE, b, i) : b \in bodies(ch[i]) }

\* The other answers a request can get: no answer at all (transport), a 200
\* with a body that is no ApiData, another status with either kind of body
\* (the page, with "data" and "meta" present, as the body that decodes).
faulty_responses(ch, u) ==
    LET i == page_index(ch, u)
        bs == IF i = 0 THEN {}
              ELSE { ApiData(SomeItems(ch[i].items), SomeMeta(ch[i].next_token)) }
    IN { Response(FALSE, 0, FALSE, EmptyBody, 0), Response(TRUE, 200, FALSE, EmptyBody, 0) }
       \cup { Response(TRUE, st, FALSE, EmptyBody, 0) : st \in {304, 500} }
       \cup { Response(TRUE, st, TRUE, b, i) : st \in {304, 500}, b \in bs }

\* ------------------------------------------------------------- the state
VARIABLES
    chain,              \* the server's pages
    url,                \* ApiResults.url
    result,             \* ApiResults.result: Fuse<ApiResult<Vec<T>>>
    items,              \* ApiResults.items: the rest of the current page
    pagination_token,   \* ApiResults.pagination_token
    response,           \* the answer to the request in flight, once arrived
    requests,           \* the url of every request sent, in order
    faults,             \* answers so far that were not the plain 200 + page
    out,                \* what poll_next returned Ready with, in order
    resolved,           \* the output of every fetch that completed, in order
    pending_polls       \* polls of the fetch in flight that returned Pending

VARIABLES
    pc,                 \* where main is
    lookup,             \* how get_user_by_username ended
    timeline,           \* created_at of the user's tweets, newest first
    end_inclusive,      \* whether the server serves the tweet made at end_time
    page_cap,           \* most tweets the server puts in one page
    tweet_num,          \* main's locals
    end_time,
    poop_period,
    tweet_session,
    poop_tweets,
    non_poop_tweets

mvars ==
    << pc, lookup, timeline, end_inclusive, page_cap, tweet_num, end_time,
       poop_period, tweet_session, poop_tweets, non_poop_tweets >>

vars ==
    << chain, url, result, items, pagination_token, response, requests, faults,
       out, resolved, pending_polls, mvars >>

\* ------------------------------------------------------- main's objects
POOPS_PER_DAY == 3
TWEET_SESSION_TIMEOUT_SECS == 15 * 60

\* Utc::now(), as a second of the day: later than every tweet.
Now == 24 * 60 * 60 - 1

\* usize subtraction. Below zero it overflows: a panic of a debug build, a
\* wrapped value of a release build, in neither case the difference.
Overflowed == 0 - 1
usize_sub(a, b) == IF b > a THEN Overflowed ELSE a - b

\* TweetSession::new
TweetSession_new(created_at) ==
    [end |-> created_at, start |-> created_at, num_tweets |-> 1]

\* TweetSession::should_include
TweetSession_should_include(session, created_at) ==
    (session.start - created_at) < TWEET_SESSION_TIMEOUT_SECS

\* TweetSession::add
TweetSession_add(session, created_at) ==
    [session EXCEPT !.start = created_at, !.num_tweets = @ + 1]

\* PoopPeriod::new
PoopPeriod_new(end) == [end |-> end, start |-> end, sessions |-> <<>>]

\* PoopPeriod::should_include: 24 * 60 * 60 / POOPS_PER_DAY, rounded.
PoopPeriod_should_include(period, session) ==
    LET secs == (2 * 24 * 60 * 60 + POOPS_PER_DAY) \div (2 * POOPS_PER_DAY)
    IN (period.end - session.start) < secs

\* PoopPeriod::add
PoopPeriod_add(period, session) ==
    [period EXCEPT !.start = session.start, !.sessions = Append(@, session)]

\* PoopPeriod::num_tweets counting the sessions instead of their tweets.
num_tweets_sessions(period) == Len(period.sessions)

\* PoopPeriod::num_tweets
RECURSIVE SumTweets(_, _)
SumTweets(sessions, k) ==
    IF k = 0 THEN 0 ELSE SumTweets(sessions, k - 1) + sessions[k].num_tweets

num_tweets(period) == SumTweets(period.sessions, Len(period.sessions))

\* PoopPeriod::poop_session and PoopPeriod::num_poop_tweets: the tweets of a
\* session that has the most, 0 without sessions.
num_poop_tweets(period) ==
    IF period.sessions = <<>> THEN 0
    ELSE LET ns == { period.sessions[k].num_tweets : k \in 1..Len(period.sessions) }
         IN CHOOSE n \in ns : \A m \in ns : m <= n

\* PoopPeriod::num_non_poop_tweets
num_non_poop_tweets(period) == usize_sub(num_tweets(period), num_poop_tweets(period))

\* Option<PoopPeriod>, Option<TweetSession>
NoPeriod == [some |-> FALSE, val |-> PoopPeriod_new(0)]
SomePeriod(p) == [some |-> TRUE, val |-> p]
NoSession == [some |-> FALSE, val |-> TweetSession_new(0)]
SomeSession(x) == [some |-> TRUE, val |-> x]

\* main before it runs, and in the behaviours that drive a stream by itself.
MainIdle ==
    /\ pc = "stream"
    /\ lookup = "none"
    /\ timeline = <<>>
    /\ end_inclusive = FALSE
    /\ page_cap = 1
    /\ tweet_num = 0
    /\ end_time = Now
    /\ poop_period = NoPeriod
    /\ tweet_session = NoSession
    /\ poop_tweets = 0
    /\ non_poop_tweets = 0

\* --------------------------------------------------- Single-page fetcher
\* Response::error_for_status: an error for a client or server error status.
error_for_status(status) == status >= 400 /\ status <= 599

\* ApiResult::get: the future of one GET; nothing is sent until it is polled.
ApiResult_get(u) == [state |-> "unpolled", url |-> u]

NoFuture == [state |-> "none", url |-> NoUrl]

\* The output of the future of ApiResult::get for a response: send, then
\* error_for_status, then json, each step only if the one before succeeded.
ApiResult_output(resp) ==
    IF ~resp.transport_ok THEN Err(TransportErr)
    ELSE IF error_for_status(resp.status) THEN Err(StatusErr(resp.status))
    ELSE IF ~resp.decodes THEN Err(DecodeErr)
    ELSE Ok(resp.body)

\* ----------------------------------------------------- Paginated sequence
\* is_terminated for a future that is not fused: never known to be complete.
is_terminated_never(r) == FALSE

\* Fuse::is_terminated: the wrapped future has completed.
is_terminated(r) == r.state = "terminated"

\* next_url with the token pasted into the query as it is.
next_url_raw(u, token) ==
    [u EXCEPT !.query = (IF u.query = <<>> THEN <<>> ELSE u.query \o <<"&">>)
                            \o PAGINATION_TOKEN \o <<"=">> \o token]

\* url.clone() with pagination_token appended.
next_url(u, token) ==
    [u EXCEPT !.query = append_pair(u.query, PAGINATION_TOKEN, token)]

\* future_to_poll with the stored future forgotten: whenever the stream has
\* sent a request before, a new future is made.
future_to_poll_restart(r, u, token) ==
    IF r.state = "unpolled" THEN r
    ELSE ApiResult_get(IF token.some THEN next_url(u, token.val) ELSE u)

\* future_to_poll with the token appended to the url of the last request
\* instead of a clone of the stream's url.
future_to_poll_accumulate(r, u, token) ==
    IF is_terminated(r) THEN ApiResult_get(next_url(r.url, token.val)) ELSE r

\* The future poll_next polls when the buffer is empty: a new one for the next
\* page when the last one has completed, the stored one otherwise.
future_to_poll(r, u, token) ==
    IF is_terminated(r) THEN ApiResult_get(next_url(u, token.val)) ELSE r

\* next_token with a missing token defaulted to the empty string.
next_token_defaulted(data) ==
    IF data.meta.some
    THEN SomeStr(data.meta.val.next_token.val)
    ELSE NoneStr

\* data.meta.and_then(|meta| meta.next_token)
next_token(data) ==
    IF data.meta.some THEN data.meta.val.next_token ELSE NoneStr

\* token_on_ready with the token assigned before the result is looked at.
token_on_ready_always(res, token) == next_token(res.data)

\* token_on_ready with the token dropped when the fetch failed.
token_on_ready_clear(res, token) == IF res.ok THEN next_token(res.data) ELSE NoneStr

\* token_on_ready with the token replaced only when the page carries one.
token_on_ready_sticky(res, token) ==
    IF res.ok /\ next_token(res.data).some THEN next_token(res.data) ELSE token

\* The token after a fetch completed with res: replaced by the page's on Ok,
\* left alone on Err.
token_on_ready(res, token) == IF res.ok THEN next_token(res.data) ELSE token

\* data.data.unwrap_or_default()
data_items(data) == IF data.data.some THEN data.data.val ELSE <<>>

\* items_next that hands out the front item and leaves it in the buffer.
items_next_peek(its) == [item |-> Head(its), rest |-> its]

\* items.next() on a buffer that is not empty: the front item, and the rest.
items_next(its) == [item |-> Head(its), rest |-> Tail(its)]

\* Poll<Option<Result<T>>> values that are Ready.
ItemOut(x) == [kind |-> "item", item |-> x, err |-> NoErr]
EndOut == [kind |-> "end", item |-> 0, err |-> NoErr]
ErrOut(e) == [kind |-> "err", item |-> 0, err |-> e]

Init ==
    /\ chain \in Chains
    /\ url = NoUrl
    /\ result = NoFuture
    /\ items = <<>>
    /\ pagination_token = NoneStr
    /\ response = NoResponse
    /\ requests = <<>>
    /\ faults = 0
    /\ out = <<>>
    /\ resolved = <<>>
    /\ pending_polls = 0
    /\ MainIdle

\* ApiResults::get with the first request sent at once.
ApiResults_get_eager(u) ==
    /\ url' = u
    /\ result' = [ApiResult_get(u) EXCEPT !.state = "pending"]
    /\ items' = <<>>
    /\ pagination_token' = NoneStr
    /\ requests' = Append(requests, u)
    /\ UNCHANGED response

\* ApiResults::get
ApiResults_get(u) ==
    /\ url' = u
    /\ result' = ApiResult_get(u)
    /\ items' = <<>>
    /\ pagination_token' = NoneStr
    /\ UNCHANGED <<requests, response>>

\* Api::get_user_tweets
GetUserTweets ==
    /\ result.state = "none"
    /\ \E opts \in GetTweetOptsSet : ApiResults_get(tweets_url(opts))
    /\ UNCHANGED <<chain, faults, out, resolved, pending_polls>>
    /\ UNCHANGED mvars

\* Stream::poll_next of ApiResults, one call.
poll_next ==
    /\ result.state # "none"
    /\ Len(out) < MaxOut
    /\ UNCHANGED <<chain, url, faults>>
    /\ IF items # <<>>
       THEN /\ out' = Append(out, ItemOut(items_next(items).item))
            /\ items' = items_next(items).rest
            /\ UNCHANGED <<result, pagination_token, response, requests, resolved,
                           pending_polls>>
       ELSE IF is_terminated(result) /\ ~pagination_token.some
       THEN /\ out' = Append(out, EndOut)
            /\ UNCHANGED <<result, items, pagination_token, response, requests, resolved,
                           pending_polls>>
       ELSE LET fut == future_to_poll(result, url, pagination_token)
            IN IF fut.state = "unpolled"
               THEN \* the first poll of a future sends its request: Pending
                    /\ result' = [fut EXCEPT !.state = "pending"]
                    /\ requests' = Append(requests, fut.url)
                    /\ response' = NoResponse
                    /\ pending_polls' = 1
                    /\ UNCHANGED <<items, pagination_token, out, resolved>>
               ELSE IF fut.state = "terminated" \/ ~response.arrived
               THEN \* Pending
                    /\ pending_polls < MaxPendingPolls
                    /\ pending_polls' = pending_polls + 1
                    /\ result' = fut
                    /\ UNCHANGED <<items, pagination_token, response, requests,
                                   out, resolved>>
               ELSE LET res == ApiResult_output(response)
                        new == data_items(res.data)
                    IN /\ result' = [fut EXCEPT !.state = "terminated"]
                       /\ response' = NoResponse
                       /\ resolved' = Append(resolved,
                                              IF res.ok
                                              THEN Fetched(response.page)
                                              ELSE Failed(res.err))
                       /\ pending_polls' = 0
                       /\ UNCHANGED requests
                       /\ pagination_token' = token_on_ready(res, pagination_token)
                       /\ IF res.ok
                          THEN /\ items' = IF new = <<>> THEN <<>>
                                         ELSE items_next(new).rest
                               /\ out' = Append(out, IF new = <<>> THEN EndOut
                                                     ELSE ItemOut(items_next(new).item))
                          ELSE /\ out' = Append(out, ErrOut(res.err))
                               /\ UNCHANGED items

\* A consumer polls the stream.
PollNext == poll_next /\ UNCHANGED mvars

\* The server answers the request in flight.
ServerRespond ==
    /\ result.state = "pending"
    /\ ~response.arrived
    /\ \E r \in server_responses(chain, result.url) : response' = r
    /\ UNCHANGED <<chain, url, result, items, pagination_token, requests, faults,
                   out, resolved, pending_polls>>
    /\ UNCHANGED mvars

\* The request in flight fails, or is answered with something else than the page.
ServerFault ==
    /\ result.state = "pending"
    /\ ~response.arrived
    /\ faults < MaxFaults
    /\ faults' = faults + 1
    /\ \E r \in faulty_responses(chain, result.url) : response' = r
    /\ UNCHANGED <<chain, url, result, items, pagination_token, requests, out,
                   resolved, pending_polls>>
    /\ UNCHANGED mvars

Next == GetUserTweets \/ PollNext \/ ServerRespond \/ ServerFault

Spec == Init /\ [][Next]_vars

\* A server that answers every request with its page, and a consumer that
\* keeps pulling: whatever can be done is done eventually.
LiveNext == GetUserTweets \/ PollNext \/ ServerRespond

\* A request is in flight and unanswered: exactly when ServerRespond can act.
AwaitingResponse == result.state = "pending" /\ ~response.arrived

\* The last conjunct is weak fairness of ServerRespond, with its enabling
\* condition written out as AwaitingResponse.
LiveSpec ==
    /\ Init
    /\ [][LiveNext]_vars
    /\ WF_vars(GetUserTweets)
    /\ WF_vars(PollNext)
    /\ ([]<>~AwaitingResponse \/ []<><<ServerRespond>>_vars)


\* ------------------------------------------- the server of the timeline
\* The instants tweets are made at, as seconds of the day: apart by less than
\* a session's timeout, by exactly it, by more, and by a period and more.
Times == {0, 600, 1500, 29400, 30300}

\* The timelines the server may hold: newest tweet first.
Timelines ==
    UNION { { tl \in [1..n -> Times] : \A i \in 1..(n - 1) : tl[i] >= tl[i + 1] } :
            n \in 0..MaxTweets }

DigitVal(c) == CHOOSE d \in 0..9 : DigitChar(d) = c

\* The second of the day of "1970-01-01THH:MM:SSZ".
parse_rfc3339(s) ==
    3600 * (10 * DigitVal(s[12]) + DigitVal(s[13]))
        + 60 * (10 * DigitVal(s[15]) + DigitVal(s[16]))
        + (10 * DigitVal(s[18]) + DigitVal(s[19]))

\* The end_time a request asks for.
end_time_of(u) ==
    LET hit == SelectSeq(query_pairs(u.query), LAMBDA p : p[1] = END_TIME)
    IN IF hit = <<>> THEN NoneInt ELSE SomeInt(parse_rfc3339(hit[Len(hit)][2]))

\* The pages the server holds for a query: the tweets of the timeline made
\* before end (or at it, when the server takes end_time inclusively), newest
\* first, cap to a page. A tweet is known by its place in the timeline.
timeline_chain(tl, end, inclusive, cap) ==
    LET visible == SelectSeq([i \in 1..Len(tl) |-> i],
                             LAMBDA i : \/ ~end.some
                                        \/ tl[i] < end.val
                                        \/ inclusive /\ tl[i] = end.val)
        k == Len(visible)
        n == IF k = 0 THEN 1 ELSE (k + cap - 1) \div cap
    IN [i \in 1..n |->
            Page(SubSeq(visible, (i - 1) * cap + 1, IF i * cap < k THEN i * cap ELSE k),
                 IF i < n THEN SomeStr(TokenOf(i)) ELSE NoneStr)]

\* Option<User> of the body of a user lookup.
NoUser == [some |-> FALSE, val |-> <<>>]
SomeUser == [some |-> TRUE, val |-> <<"id">>]

\* The answers a user lookup can get: the user; a 200 whose body decodes and
\* has no "data" (an unknown user is reported so); no answer; an error
\* status; a 200 with a body that is no ApiData.
user_responses ==
    { Response(TRUE, 200, TRUE, ApiData(SomeUser, NoMeta), 0),
      Response(TRUE, 200, TRUE, ApiData(NoUser, NoMeta), 0),
      Response(FALSE, 0, FALSE, EmptyBody, 0),
      Response(TRUE, 404, FALSE, EmptyBody, 0),
      Response(TRUE, 200, FALSE, EmptyBody, 0) }

\* ------------------------------------------------------------------ main
\* ApiResult::data: Ok(self.await?.data)
ApiResult_data(resp) ==
    LET r == ApiResult_output(resp)
    IN IF r.ok THEN [ok |-> TRUE, data |-> r.data.data, err |-> NoErr]
       ELSE [ok |-> FALSE, data |-> NoUser, err |-> r.err]

\* Api::get_user_by_username: Ok(ApiResult::get(..).data().await?.unwrap());
\* unwrap of None panics.
get_user_by_username(resp) ==
    LET d == ApiResult_data(resp)
    IN IF ~d.ok THEN "err"
       ELSE IF d.data.some THEN "user"
       ELSE "panic"

MainInit ==
    /\ chain = <<>>
    /\ url = NoUrl
    /\ result = NoFuture
    /\ items = <<>>
    /\ pagination_token = NoneStr
    /\ response = NoResponse
    /\ requests = <<>>
    /\ faults = 0
    /\ out = <<>>
    /\ resolved = <<>>
    /\ pending_polls = 0
    /\ pc = "start"
    /\ lookup = "none"
    /\ timeline \in Timelines
    /\ end_inclusive \in BOOLEAN
    /\ page_cap \in 1..MaxItems
    /\ tweet_num = 0
    /\ end_time = Now
    /\ poop_period = NoPeriod
    /\ tweet_session = NoSession
    /\ poop_tweets = 0
    /\ non_poop_tweets = 0

\* main, lines 101-104: the lookup of the user, and expect on its result.
GetUserByUsername ==
    /\ pc = "start"
    /\ \E resp \in user_responses :
          /\ lookup' = get_user_by_username(resp)
          /\ pc' = IF get_user_by_username(resp) = "user" THEN "head" ELSE "panicked"
    /\ UNCHANGED <<chain, url, result, items, pagination_token, response, requests,
                   faults, out, resolved, pending_polls>>
    /\ UNCHANGED <<timeline, end_inclusive, page_cap, tweet_num, end_time,
                   poop_period, tweet_session, poop_tweets, non_poop_tweets>>

\* main, lines 113-126: the loop goes on, and opens a stream of the tweets up
\* to end_time; the server holds the pages the query asks for.
MainOpen ==
    /\ pc = "head"
    /\ tweet_num < MIN_TWEETS_TO_ANALYZE
    /\ ApiResults_get(tweets_url(Opts({"CreatedAt"}, SomeInt(100), SomeInt(end_time))))
    /\ chain' = timeline_chain(timeline, end_time_of(url'), end_inclusive, page_cap)
    /\ pc' = "pulling"
    /\ UNCHANGED <<faults, out, resolved, pending_polls>>
    /\ UNCHANGED <<lookup, timeline, end_inclusive, page_cap, tweet_num, end_time,
                   poop_period, tweet_session, poop_tweets, non_poop_tweets>>

\* main, lines 128-154: the body of the inner loop for a tweet made at
\* created_at.
MainBody(created_at) ==
    LET period == IF poop_period.some THEN poop_period.val
                  ELSE PoopPeriod_new(created_at)
        session == tweet_session.val
        closes == tweet_session.some /\ ~TweetSession_should_include(session, created_at)
        flushes == closes /\ ~PoopPeriod_should_include(period, session)
    IN /\ tweet_num' = tweet_num + 1
       /\ end_time' = created_at
       /\ poop_tweets' = poop_tweets + (IF flushes THEN num_poop_tweets(period) ELSE 0)
       /\ non_poop_tweets' =
              non_poop_tweets + (IF flushes THEN num_non_poop_tweets(period) ELSE 0)
       /\ poop_period' =
              IF ~closes THEN SomePeriod(period)
              ELSE SomePeriod(PoopPeriod_add(IF flushes THEN PoopPeriod_new(created_at)
                                             ELSE period,
                                             session))
       /\ tweet_session' =
              IF ~tweet_session.some \/ closes
              THEN SomeSession(TweetSession_new(created_at))
              ELSE SomeSession(TweetSession_add(session, created_at))

\* main, line 127: tweets.next().await, one poll of it, and what main does
\* with what it returns: the body for a tweet, expect's panic for an error,
\* the end of the inner loop for None.
MainPull ==
    /\ pc = "pulling"
    /\ poll_next
    /\ UNCHANGED <<lookup, timeline, end_inclusive, page_cap>>
    /\ IF out' = out
       THEN UNCHANGED <<pc, tweet_num, end_time, poop_period, tweet_session,
                        poop_tweets, non_poop_tweets>>
       ELSE LET r == out'[Len(out')]
            IN IF r.kind = "item"
               THEN /\ MainBody(timeline[r.item])
                    /\ UNCHANGED pc
               ELSE /\ pc' = IF r.kind = "end" THEN "ended" ELSE "panicked"
                    /\ UNCHANGED <<tweet_num, end_time, poop_period, tweet_session,
                                   poop_tweets, non_poop_tweets>>

\* main, line 156: the end of the outer loop's body drops the stream.
MainLoop ==
    /\ pc = "ended"
    /\ pc' = "head"
    /\ chain' = <<>>
    /\ url' = NoUrl
    /\ result' = NoFuture
    /\ items' = <<>>
    /\ pagination_token' = NoneStr
    /\ response' = NoResponse
    /\ requests' = <<>>
    /\ out' = <<>>
    /\ resolved' = <<>>
    /\ pending_polls' = 0
    /\ UNCHANGED <<faults, lookup, timeline, end_inclusive, page_cap, tweet_num,
                   end_time, poop_period, tweet_session, poop_tweets, non_poop_tweets>>

\* main, lines 113 and 159-162: enough tweets are counted, the totals are
\* printed.
MainDone ==
    /\ pc = "head"
    /\ ~(tweet_num < MIN_TWEETS_TO_ANALYZE)
    /\ pc' = "done"
    /\ UNCHANGED <<chain, url, result, items, pagination_token, response, requests,
                   faults, out, resolved, pending_polls>>
    /\ UNCHANGED <<lookup, timeline, end_inclusive, page_cap, tweet_num, end_time,
                   poop_period, tweet_session, poop_tweets, non_poop_tweets>>

MainNext ==
    \/ GetUserByUsername
    \/ MainOpen
    \/ MainPull
    \/ MainLoop
    \/ MainDone
    \/ ServerRespond
    \/ ServerFault

MainSpec == MainInit /\ [][MainNext]_vars

\* main with a server that answers every request with its page: whatever
\* main or the server can do is done eventually. The last conjunct is weak
\* fairness of ServerRespond, as in LiveSpec.
MainLiveNext ==
    \/ GetUserByUsername
    \/ MainOpen
    \/ MainPull
    \/ MainLoop
    \/ MainDone
    \/ ServerRespond

MainLiveSpec ==
    /\ MainInit
    /\ [][MainLiveNext]_vars
    /\ WF_vars(GetUserByUsername)
    /\ WF_vars(MainOpen)
    /\ WF_vars(MainPull)
    /\ WF_vars(MainLoop)
    /\ WF_vars(MainDone)
    /\ ([]<>~AwaitingResponse \/ []<><<ServerRespond>>_vars)

\* ------------------------------------------------ what the claims speak of
Last(q) == q[Len(q)]

IsPrefix(p, q) == Len(p) <= Len(q) /\ SubSeq(q, 1, Len(p)) = p

\* Index of the first "no more items" among the results, or 0.
FirstEnd(o) ==
    IF \E i \in 1..Len(o) : o[i].kind = "end"
    THEN CHOOSE i \in 1..Len(o) : o[i].kind = "end" /\ \A j \in 1..(i - 1) : o[j].kind # "end"
    ELSE 0

\* The results up to the first "no more items" (all of them when there is none).
UpToFirstEnd(o) == IF FirstEnd(o) = 0 THEN o ELSE SubSeq(o, 1, FirstEnd(o) - 1)

\* P1.items ++ ... ++ Pk.items
RECURSIVE ConcatItems(_, _)
ConcatItems(ch, k) ==
    IF k = 0 THEN <<>> ELSE ConcatItems(ch, k - 1) \o ch[k].items

EveryFetchSucceeded == \A i \in 1..Len(resolved) : resolved[i].ok

\* Index of the last fetch among the first k that succeeded, or 0.
LastOk(k) ==
    IF \E i \in 1..k : resolved[i].ok
    THEN CHOOSE i \in 1..k : resolved[i].ok /\ \A j \in (i + 1)..k : ~resolved[j].ok
    ELSE 0

\* The next_token of the page fetch i delivered.
TokenOfFetch(i) == chain[resolved[i].page].next_token

\* This step is a poll_next call that completes the fetch in flight.
FetchCompletes == Len(resolved') = Len(resolved) + 1

\* ----------------------------------------------------------------- claims

\* C1 (as claimed): with every fetch succeeding, the items pulled up to the
\* first "no more items" are a prefix of P1.items ++ ... ++ Pn.items, and all
\* of it once "no more items" has been returned.
C1_OrderPreservation ==
    EveryFetchSucceeded =>
        LET got == UpToFirstEnd(out)
            all == ConcatItems(chain, Len(chain))
        IN /\ \A i \in 1..Len(got) : got[i].kind = "item"
           /\ IsPrefix([i \in 1..Len(got) |-> got[i].item], all)
           /\ FirstEnd(out) # 0 => Len(got) = Len(all)

\* C2 (as claimed): a poll_next call that completes a fetch with zero items
\* and a continuation token does not return "no more items".
C2_EmptyPageWithToken ==
    [][ ( /\ FetchCompletes
          /\ Last(resolved').ok
          /\ chain[Last(resolved').page].items = <<>>
          /\ chain[Last(resolved').page].next_token.some )
        => out' # Append(out, EndOut) ]_vars

\* C3 (as claimed): once a pull has returned "no more items", every later
\* pull returns "no more items" and no request is sent any more.
C3_ExhaustedIsFinal ==
    [][ (\E i \in 1..Len(out) : out[i].kind = "end")
        => /\ requests' = requests
           /\ out' = out \/ out' = Append(out, EndOut) ]_vars

\* C4: at most one fetch is in flight: every request but possibly the last
\* has completed, the last is the one the stored future stands for, and it
\* is incomplete exactly while that future is pending.
C4_SingleFlight ==
    /\ Len(requests) - Len(resolved) \in {0, 1}
    /\ result.state = "pending" <=> Len(requests) = Len(resolved) + 1
    /\ result.state = "pending" => Last(requests) = result.url

\* C4's case: a follow-up fetch polled again while it is pending.
C4_Witness ==
    /\ result.state = "pending"
    /\ pending_polls >= 2
    /\ Len(requests) >= 2

\* C5 (as claimed): the pull after a pull that returned a fetch's error sends
\* the failed request again.
C5_RetryAfterAnyFailure ==
    [][ ( /\ is_terminated(result)
          /\ resolved # <<>>
          /\ ~Last(resolved).ok )
        => requests' = Append(requests, Last(requests)) ]_vars


\* A follow-up fetch has just failed: the last fetch to complete failed, and
\* the last one before it that succeeded delivered a page with a next_token.
FollowUpFailed ==
    /\ is_terminated(result)
    /\ resolved # <<>>
    /\ ~Last(resolved).ok
    /\ LastOk(Len(resolved)) # 0
    /\ TokenOfFetch(LastOk(Len(resolved))).some

\* C6: when a follow-up fetch fails, the pull that polled it returns that
\* error, and the next pull sends the same request again: the stream's url
\* with the pagination_token of the last page fetched successfully.
C6_ErrorIsolation ==
    [][ FollowUpFailed
        => /\ Last(out) = ErrOut(Last(resolved).err)
           /\ requests' = Append(requests, Last(requests))
           /\ request_tokens(Last(requests'))
                = << TokenOfFetch(LastOk(Len(resolved))).val >> ]_vars

\* C6's case: page 1 fetched with a token, fetch 2 failed with a status error
\* and was sent again.
C6_Witness ==
    /\ Len(resolved) = 2
    /\ resolved[1].ok
    /\ resolved[2].err = StatusErr(500)
    /\ Len(requests) = 3
    /\ requests[3] = requests[2]
    /\ requests[2] # requests[1]
    /\ Last(out) = ErrOut(StatusErr(500))

\* C7: when the first page carries items and no next_token and its fetch
\* succeeded, the pulls return its items in order and then "no more items" every
\* time, and one request is all that is ever sent.
C7_NoTokenTermination ==
    ( /\ ~chain[1].next_token.some
      /\ resolved # <<>>
      /\ resolved[1].ok )
    => /\ Len(requests) = 1
       /\ \A i \in 1..Len(out) :
            out[i] = IF i <= Len(chain[1].items)
                     THEN ItemOut(chain[1].items[i])
                     ELSE EndOut

\* C7's case: the page [a, b] drained and "no more items" returned twice.
C7_Witness ==
    /\ Len(chain[1].items) = 2
    /\ ~chain[1].next_token.some
    /\ out = << ItemOut(ItemOf(1, 1)), ItemOut(ItemOf(1, 2)), EndOut, EndOut >>
    /\ Len(requests) = 1

\* C8: the first request is the stream's url; a later request, in every state
\* from its sending on until the next one is sent, has the url's path, and its
\* query is the query of the stream's url, unchanged, followed by one more
\* parameter, which decodes to pagination_token = the next_token of the last
\* page fetched successfully before it.
C8_TokenRoundTrip ==
    LET k == Len(requests)
        q == requests[k].query
        n == Len(url.query)
        \* what follows the url's query and the "&" after it
        added == SubSeq(q, IF n = 0 THEN 1 ELSE n + 2, Len(q))
    IN /\ k >= 1 => requests[1] = url
       /\ k >= 2 =>
            /\ requests[k].path = url.path
            /\ LastOk(k - 1) # 0
            /\ TokenOfFetch(LastOk(k - 1)).some
            /\ Len(q) > n
            /\ SubSeq(q, 1, n) = url.query
            /\ n > 0 => q[n + 1] = "&"
            /\ query_pairs(added)
                 = << <<PAGINATION_TOKEN, TokenOfFetch(LastOk(k - 1)).val>> >>

\* C8's case: a url with query parameters, and the requests of pages 2 and 3.
C8_Witness ==
    /\ Len(query_pairs(url.query)) = 3
    /\ Len(requests) = 3
    /\ resolved[1].ok /\ resolved[2].ok
    /\ request_tokens(requests[2]) = << TokenOf(1) >>
    /\ request_tokens(requests[3]) = << TokenOf(2) >>

\* C9: before the first call of poll_next no request has been sent and no
\* response is there; constructing the stream sends nothing.
C9_LazyStart ==
    (out = <<>> /\ pending_polls = 0) => (requests = <<>> /\ ~response.arrived)

\* C9's case: the stream is constructed and has not been polled.
C9_Witness ==
    /\ result.state = "unpolled"
    /\ url.query # <<>>
    /\ out = <<>> /\ pending_polls = 0
    /\ requests = <<>>

\* StatusCode::is_success
is_success(status) == status >= 200 /\ status <= 299

\* C10 (as claimed): a fetch without a response fails with the transport
\* error; with a response of a non-success status it fails with that status,
\* whatever the body; it fails to decode only on a success status with a body
\* that is no ApiData; it succeeds only on a success status with a body that is.
C10_StatusBeforeDecode ==
    [][ FetchCompletes
        => LET r == Last(resolved')
           IN /\ ~response.transport_ok => r.err = TransportErr
              /\ (response.transport_ok /\ ~is_success(response.status))
                    => r.err = StatusErr(response.status)
              /\ r.err = DecodeErr
                    => /\ response.transport_ok
                       /\ is_success(response.status)
                       /\ ~response.decodes
              /\ r.ok => /\ response.transport_ok
                         /\ is_success(response.status)
                         /\ response.decodes ]_vars


\* C11: while a fetch is in flight the token and the buffer do not change;
\* when it completes with an error, the call returns that error, the token
\* and the buffer are still what they were, and no request is sent.
C11_FailureLeavesState ==
    [][ /\ result'.state = "pending"
            => /\ pagination_token' = pagination_token
               /\ items' = items
        /\ (FetchCompletes /\ ~Last(resolved').ok)
            => /\ out' = Append(out, ErrOut(Last(resolved').err))
               /\ Last(resolved').err = ApiResult_output(response).err
               /\ pagination_token' = pagination_token
               /\ items' = items
               /\ requests' = requests
               /\ result'.state = "terminated" ]_vars

\* C11's case: the fetch of a follow-up page has failed and its error was
\* returned, with the token of the page before still held.
C11_Witness ==
    /\ Len(resolved) >= 2
    /\ ~Last(resolved).ok
    /\ Last(out) = ErrOut(Last(resolved).err)
    /\ pagination_token.some
    /\ result.state = "terminated"
    /\ Len(requests) = Len(resolved)

\* C12: a poll_next call that finds the buffer not empty returns its front
\* item and removes it, and changes neither the token nor the future nor what
\* was sent and received; a request is sent only from a state with an empty
\* buffer.
C12_BufferDrainsFirst ==
    [][ /\ items # <<>>
            => /\ out' = Append(out, ItemOut(Head(items)))
               /\ items' = Tail(items)
               /\ UNCHANGED <<pagination_token, result, requests, response, resolved>>
        /\ requests' # requests => items = <<>> ]_vars

\* C12's case: an item was served from the buffer while a token is held, and
\* no request for the next page has been sent.
C12_Witness ==
    /\ Len(out) = 2
    /\ out[2] = ItemOut(ItemOf(1, 2))
    /\ items = <<>>
    /\ pagination_token.some
    /\ result.state = "terminated"
    /\ Len(requests) = 1

\* C13: once the stream is constructed its url never changes, and every
\* request after the first has exactly one pagination_token parameter more
\* than the url (the first has as many).
C13_TokenOnClone ==
    [][ /\ result.state # "none" => url' = url
        /\ requests' # requests
            => Len(request_tokens(Last(requests')))
                 = Len(request_tokens(url'))
                     + (IF Len(requests') = 1 THEN 0 ELSE 1) ]_vars

\* C13's case: the request of a third page, with one token.
C13_Witness ==
    /\ Len(requests) = 3
    /\ resolved[1].ok /\ resolved[2].ok
    /\ Len(request_tokens(requests[3])) = 1
    /\ url.query # <<>>

\* C14: a poll_next call that finds the buffer empty and the future complete
\* does not poll that future: with a token it makes a new one and sends its
\* request, without a token it returns "no more items" and leaves the future.
C14_NoPollAfterComplete ==
    [][ (result.state = "terminated" /\ items = <<>>)
        => \/ /\ pagination_token.some
              /\ result' = [state |-> "pending",
                            url |-> next_url(url, pagination_token.val)]
              /\ requests' = Append(requests, result'.url)
              /\ UNCHANGED <<out, resolved>>
           \/ /\ ~pagination_token.some
              /\ out' = Append(out, EndOut)
              /\ UNCHANGED <<result, requests, resolved, pending_polls>> ]_vars

\* C14's case: after fetches that succeeded and one that failed, a new fetch
\* was started, and later "no more items" returned twice.
C14_Witness ==
    /\ Len(resolved) = 3
    /\ \E i \in 1..3 : ~resolved[i].ok
    /\ Len(requests) = 3
    /\ Len(out) >= 2
    /\ out[Len(out)] = EndOut /\ out[Len(out) - 1] = EndOut
    /\ result.state = "terminated"


HasEnd == \E i \in 1..Len(out) : out[i].kind = "end"

\* C15: with every fetch answered by its page and a consumer that keeps
\* pulling, "no more items" is returned eventually, and never more requests
\* are sent than the chain has pages.
C15_PullLiveness ==
    /\ <>HasEnd
    /\ [](Len(requests) <= Len(chain))

\* C15's case: the longest chain, every page full, pulled to "no more items".
C15_Witness ==
    /\ Len(chain) = MaxPages
    /\ Len(requests) = MaxPages
    /\ Len(out) = MaxPages * MaxItems + 1
    /\ Last(out) = EndOut
    /\ \A i \in 1..(Len(out) - 1) : out[i].kind = "item"

\* C16: get_user_by_username never aborts: whatever the response, a success
\* status with a body without "data" included, it returns a User or an error
\* to its caller.
C16_LookupNeverAborts == lookup # "panic"

\* C17: with the user found and every request answered with its page, the
\* loop of main comes to its end and the totals are printed.
C17_LoopTerminates == (pc = "head") ~> (pc = "done")

\* The tweets held by the period and by the session main is filling.
InPeriod == IF poop_period.some THEN num_tweets(poop_period.val) ELSE 0
InSession == IF tweet_session.some THEN tweet_session.val.num_tweets ELSE 0

\* C18: in every state of main's loop the tweets counted as poop or non-poop,
\* those of the sessions of the open period and those of the open session
\* are together no more than the tweets pulled, so
\* poop_tweets + non_poop_tweets <= tweet_num; and the open period has
\* num_poop_tweets() <= num_tweets(), so that num_non_poop_tweets() does not
\* overflow and num_poop_tweets() + num_non_poop_tweets() = num_tweets().
C18_Accounting ==
    /\ poop_tweets + non_poop_tweets <= tweet_num
    /\ poop_tweets + non_poop_tweets + InPeriod + InSession <= tweet_num
    /\ poop_period.some =>
          LET period == poop_period.val
          IN /\ num_poop_tweets(period) <= num_tweets(period)
             /\ num_non_poop_tweets(period) # Overflowed
             /\ num_poop_tweets(period) + num_non_poop_tweets(period) = num_tweets(period)

\* C18's case: a period of several sessions has been closed and counted, and
\* the next period holds a session.
C18_Witness ==
    /\ poop_tweets > 0
    /\ non_poop_tweets > 0
    /\ poop_period.some
    /\ poop_period.val.sessions # <<>>
    /\ tweet_session.some

====
